---- MODULE Spec2Model ----
(***************************************************************************)
(* A model of common_code.py (wavelight): the world-record normaliser, the *)
(* vendor (wavelight) normaliser, the merger and the fetch/status wrappers.*)
(*                                                                         *)
(* Text is a sequence of one-character strings, a table is a record        *)
(* [nlevels, columns, rows] with rows a sequence of functions from column  *)
(* label to cell, and a call's outcome is a record whose err field is      *)
(* "ok" or the name of the exception the call raises.                      *)
(***************************************************************************)
EXTENDS Integers, Sequences, FiniteSets, TLC

VARIABLES
    text, split_out,                 \* one raw Meeting cell and what lines 98-99 make of it
    df_list, df_list_in, records_df, calls,  \* create_world_records_df: argument, its value at entry of the first call, result, calls made
    df_wave, df_records, df_comb,    \* combine_dfs: arguments and result
    wiki_data, wave_data,            \* the two HTTP responses
    wiki_ret, wave_ret, stdout       \* what the two url_to_df functions return; lines printed

vars == <<text, split_out, df_list, df_list_in, records_df, calls,
          df_wave, df_records, df_comb,
          wiki_data, wave_data, wiki_ret, wave_ret, stdout>>

splitVars   == <<text, split_out>>
recordsVars == <<df_list, df_list_in, records_df, calls>>
combVars    == <<df_wave, df_records, df_comb>>
fetchVars   == <<wiki_data, wave_data, wiki_ret, wave_ret, stdout>>

\* A missing cell (pandas NaN): what read_html gives for an empty cell, what
\* concat gives for an absent column and what Series.map gives for an unmapped key.
NaN == "NaN"

BoundedSeq(S, n) == UNION {[1..k -> S] : k \in 0..n}

IsDigit(c) == c \in {"0", "1", "2", "3", "4", "5", "6", "7", "8", "9"}

DigitVal(c) ==
    CASE c = "0" -> 0 [] c = "1" -> 1 [] c = "2" -> 2 [] c = "3" -> 3 [] c = "4" -> 4
      [] c = "5" -> 5 [] c = "6" -> 6 [] c = "7" -> 7 [] c = "8" -> 8 [] c = "9" -> 9

(***************************************************************************)
(* Python string operations used by create_wavelight_records_df.           *)
(***************************************************************************)

\* sep occurs in s at position i
IsAt(s, sep, i) ==
    /\ i >= 1
    /\ i + Len(sep) - 1 <= Len(s)
    /\ \A k \in 1..Len(sep) : s[i + k - 1] = sep[k]

\* str.split(sep): every non-overlapping occurrence of sep, scanned from the
\* left, ends a part; cur is the part being read.
RECURSIVE PySplitFrom(_, _, _, _)
PySplitFrom(s, sep, i, cur) ==
    IF i > Len(s) THEN <<cur>>
    ELSE IF IsAt(s, sep, i) THEN <<cur>> \o PySplitFrom(s, sep, i + Len(sep), <<>>)
    ELSE PySplitFrom(s, sep, i + 1, Append(cur, s[i]))

PySplit(s, sep) == PySplitFrom(s, sep, 1, <<>>)

\* str.replace(ch, ''): every occurrence of the character is removed
PyReplaceChar(s, ch) == SelectSeq(s, LAMBDA c : c # ch)

\* the separator ' (' of lines 98-99
MeetingSep == <<" ", "(">>

\* line 98: lambda x: x.split(' (')[1].replace(')','')   (parts are 1-based here)
YearOfMeeting(x) == PyReplaceChar(PySplit(x, MeetingSep)[2], ")")

\* line 98 raises IndexError when the text holds no ' ('
HasYearPart(x) == Len(PySplit(x, MeetingSep)) >= 2

\* line 99: lambda x: x.split(' (')[0]
NameOfMeeting(x) == PySplit(x, MeetingSep)[1]

\* lines 98-99 on one cell
SplitMeetingCell(x) ==
    IF HasYearPart(x)
    THEN [err |-> "ok", name |-> NameOfMeeting(x), year |-> YearOfMeeting(x)]
    ELSE [err |-> "IndexError", name |-> <<>>, year |-> <<>>]

(***************************************************************************)
(* Tables (pandas DataFrames).                                             *)
(***************************************************************************)

NoTable == [nlevels |-> 1, columns |-> <<>>, index |-> <<>>, rows |-> <<>>]

\* a call that has not been made, a call that raised, a call that returned
NotCalled == [err |-> "none", df |-> NoTable]
Raised(e) == [err |-> e, df |-> NoTable]
Returned(t) == [err |-> "ok", df |-> t]

HasColumn(t, c) == \E k \in 1..Len(t.columns) : t.columns[k] = c

\* df[c] = value for every row: an existing column is overwritten in place,
\* a new one is appended as the last column
SetColumn(t, c, vals) ==
    [t EXCEPT !.columns = IF HasColumn(t, c) THEN @ ELSE Append(@, c),
              !.rows = [i \in 1..Len(t.rows) |->
                          [k \in (DOMAIN t.rows[i]) \cup {c} |->
                              IF k = c THEN vals[i] ELSE t.rows[i][k]]]]

\* the same value in every row
Broadcast(t, v) == [i \in 1..Len(t.rows) |-> v]

\* df.index.isin([x for x in range(lo, hi)]): one boolean per row, from its index label
IndexIsIn(t, lo, hi) == [i \in 1..Len(t.index) |-> t.index[i] >= lo /\ t.index[i] < hi]

\* ~mask
MaskNot(mask) == [i \in 1..Len(mask) |-> ~mask[i]]

\* the positions (1-based) a mask selects, ascending
RECURSIVE MaskPositions(_, _)
MaskPositions(mask, i) ==
    IF i > Len(mask) THEN <<>>
    ELSE (IF mask[i] THEN <<i>> ELSE <<>>) \o MaskPositions(mask, i + 1)

\* df.iloc[mask, :]: the rows the mask selects, in order, each keeping its index label
ILocMask(t, mask) ==
    LET pos == MaskPositions(mask, 1)
    IN  [t EXCEPT !.index = [k \in 1..Len(pos) |-> t.index[pos[k]]],
                  !.rows  = [k \in 1..Len(pos) |-> t.rows[pos[k]]]]

\* the column labels of a sequence of frames, each once, in order of first appearance
RECURSIVE UnionColumns(_, _)
UnionColumns(frames, acc) ==
    IF frames = <<>> THEN acc
    ELSE LET cs == Head(frames).columns
             new == SelectSeq(cs, LAMBDA c : \A k \in 1..Len(acc) : acc[k] # c)
         IN  UnionColumns(Tail(frames), acc \o new)

RECURSIVE AllRows(_)
AllRows(frames) ==
    IF frames = <<>> THEN <<>> ELSE Head(frames).rows \o AllRows(Tail(frames))

RECURSIVE AllLabels(_)
AllLabels(frames) ==
    IF frames = <<>> THEN <<>> ELSE Head(frames).index \o AllLabels(Tail(frames))

\* pd.concat(frames): the rows in order, each keeping its index label, over the
\* union of the columns; a cell of a column its frame does not have is NaN
ConcatFrames(frames) ==
    LET cols == UnionColumns(frames, <<>>)
        cset == {cols[k] : k \in 1..Len(cols)}
        rows == AllRows(frames)
    IN  [nlevels |-> 1,
         columns |-> cols,
         index   |-> AllLabels(frames),
         rows    |-> [i \in 1..Len(rows) |->
                        [c \in cset |-> IF c \in DOMAIN rows[i] THEN rows[i][c] ELSE NaN]]]

\* df.reset_index(drop=True): the index becomes 0, 1, 2, ...
ResetIndex(t) == [t EXCEPT !.index = [i \in 1..Len(t.rows) |-> i - 1]]

\* df.iloc[r, c] = v, both positions 0-based; the caller checks the range
SetCell(t, r, c, v) ==
    [t EXCEPT !.rows[r + 1][t.columns[c + 1]] = v]

InRange(t, r, c) == r < Len(t.rows) /\ c < Len(t.columns)

(***************************************************************************)
(* create_world_records_df (lines 26-68).                                  *)
(***************************************************************************)

\* the positions of df_list the function reads (lines 34-37), 0-based
MenTable == 0
WomenTable == 1
MenIndoorTable == 3
WomenIndoorTable == 4

\* the row ranges of lines 53-56: range(20,42), range(0,12), range(27,50), range(0,10)
MenDropFrom == 20
MenDropTo == 42
MenIndoorKeep == 12
WomenDropFrom == 27
WomenDropTo == 50
WomenIndoorKeep == 10

\* the cells of lines 64-66: df.iloc[9,9], df.iloc[11,9], df.iloc[34,9]
PatchColumn == 9
PatchRowA == 9
PatchRowB == 11
PatchRowC == 34

\* pd.to_datetime on the Date column: the text of each cell becomes a timestamp
ToDatetime(t) ==
    SetColumn(t, "Date", [i \in 1..Len(t.rows) |->
                            [dtype |-> "datetime64", y |-> t.rows[i]["Date"].y]])

\* line 55 with the range one short: range(27,49)
SelectWomen_OffByOne(t) ==
    ILocMask(t, MaskNot(IndexIsIn(t, WomenDropFrom, WomenDropTo - 1)))

\* lines 53-56
SelectMen(t) == ILocMask(t, MaskNot(IndexIsIn(t, MenDropFrom, MenDropTo)))
SelectMenIndoor(t) == ILocMask(t, IndexIsIn(t, 0, MenIndoorKeep))
SelectWomen(t) == ILocMask(t, MaskNot(IndexIsIn(t, WomenDropFrom, WomenDropTo)))
SelectWomenIndoor(t) == ILocMask(t, IndexIsIn(t, 0, WomenIndoorKeep))

\* lines 48-50: which of the four tables get a gender column, and its value
TagGender(men, women, men_indoor, women_indoor) ==
    [men          |-> SetColumn(men, "gender", Broadcast(men, "M")),
     women        |-> SetColumn(women, "gender", Broadcast(women, "W")),
     men_indoor   |-> men_indoor,
     women_indoor |-> women_indoor]

\* lines 58-60
CombineRecords(men, women, men_indoor, women_indoor) ==
    ResetIndex(ConcatFrames(<<men, women, men_indoor, women_indoor>>))

\* line 61
AddYear(t) == SetColumn(t, "year", [i \in 1..Len(t.rows) |-> t.rows[i]["Date"].y])

\* lines 64-66, once the three cells are known to exist
PatchMeetings(t) ==
    SetCell(SetCell(SetCell(t, PatchRowA, PatchColumn, "Diamond League"),
                    PatchRowB, PatchColumn, "NN World Record Day"),
            PatchRowC, PatchColumn, "NN World Record Day")

\* The whole call on the list dl. ret is what the caller gets, df_list is the
\* list after the call: lines 40-50 assign into the frames of the list itself.
CreateWorldRecordsDf(dl) ==
    IF Len(dl) <= WomenIndoorTable
    THEN [ret |-> Raised("IndexError"), df_list |-> dl]                \* lines 34-37
    ELSE IF dl[MenTable + 1].nlevels < 2
    THEN [ret |-> Raised("ValueError"), df_list |-> dl]                \* line 40: droplevel
    ELSE
      LET flat   == [dl[MenTable + 1] EXCEPT !.nlevels = @ - 1]        \* line 40
          tagged == TagGender(ToDatetime(flat),                        \* lines 43-50
                              ToDatetime(dl[WomenTable + 1]),
                              ToDatetime(dl[MenIndoorTable + 1]),
                              ToDatetime(dl[WomenIndoorTable + 1]))
          after  == [dl EXCEPT ![MenTable + 1] = tagged.men,
                               ![WomenTable + 1] = tagged.women,
                               ![MenIndoorTable + 1] = tagged.men_indoor,
                               ![WomenIndoorTable + 1] = tagged.women_indoor]
          df     == AddYear(CombineRecords(SelectMen(tagged.men),
                                           SelectWomen(tagged.women),
                                           SelectMenIndoor(tagged.men_indoor),
                                           SelectWomenIndoor(tagged.women_indoor)))
      IN  IF /\ InRange(df, PatchRowA, PatchColumn)
             /\ InRange(df, PatchRowB, PatchColumn)
             /\ InRange(df, PatchRowC, PatchColumn)
          THEN [ret |-> Returned(PatchMeetings(df)), df_list |-> after]
          ELSE [ret |-> Raised("IndexError"), df_list |-> after]       \* lines 64-66

(***************************************************************************)
(* The tables get_tables hands to create_world_records_df.                 *)
(***************************************************************************)

\* Column layouts of the page's tables. In the first the Meeting column is the
\* tenth, in the second it is the sixth, the third has five columns in all.
LayoutMeetingTenth ==
    <<"Event", "Perf.", "Wind", "Athlete(s)", "Nat.", "Date", "Location", "Ctry.", "Ref.",
      "Meeting", "Video">>
LayoutMeetingSixth ==
    <<"Event", "Perf.", "Athlete(s)", "Nat.", "Date", "Meeting", "Location", "Ctry.", "Ref.",
      "Video">>
LayoutShort == <<"Event", "Perf.", "Athlete(s)", "Date", "Meeting">>
Layouts == {LayoutMeetingTenth, LayoutMeetingSixth, LayoutShort}

\* Row i (0-based) of table t of the page. The Event cell names the row, the
\* Date cell is text whose year is 1980 + i, every other cell is some text.
PageRow(t, i, layout) ==
    [c \in {layout[k] : k \in 1..Len(layout)} |->
        CASE c = "Event"   -> <<t, i>>
          [] c = "Date"    -> [dtype |-> "object", y |-> 1980 + i]
          [] c = "Meeting" -> "Olympic Games"
          [] OTHER         -> "x"]

\* what pd.read_html gives for a table of n rows: a RangeIndex 0..n-1
PageTable(t, n, layout, nlevels) ==
    [nlevels |-> nlevels,
     columns |-> layout,
     index   |-> [i \in 1..n |-> i - 1],
     rows    |-> [i \in 1..n |-> PageRow(t, i - 1, layout)]]

\* bounds on the table lengths
MaxMen == 43
MaxWomen == 51
MaxMenIndoor == 13
MaxWomenIndoor == 11
MaxCalls == 2

MenLens == {MaxMen - 40, MaxMen - 22, MaxMen}
WomenLens == {MaxWomen - 49, MaxWomen - 23, MaxWomen}
MenIndoorLens == {0, MaxMenIndoor}
WomenIndoorLens == {0, MaxWomenIndoor}

PageTables(n0, n1, n3, n4, layout, lv, nt) ==
    SubSeq(<<PageTable(0, n0, layout, lv), PageTable(1, n1, layout, 1),
             PageTable(2, 2, layout, 1),
             PageTable(3, n3, layout, 1), PageTable(4, n4, layout, 1)>>, 1, nt)

(***************************************************************************)
(* create_wavelight_records_df (lines 87-116).                             *)
(***************************************************************************)

\* lines 102-111: Series.map(mapper); a name that is no key of mapper maps to NaN
MapMeeting(x) ==
    CASE
          x = <<"T", "h", "e", " ", "T", "r", "a", "c", "k", " ", "a", "t", " ", "B", "o", "s", "t", "o", "n">>
            -> "The Track at Boston"
       [] x = <<"I", "n", "t", "e", "r", "n", "a", "t", "i", "o", "n", "a", "l", " ", "M", "e", "e", "t", "i", "n", "g", " ", "d", "e", " ", "L", "i", "e", "v", "i", "n">>
            -> "Meeting Hauts-de-France Pas-de-Calais"
       [] x = <<"E", "t", "h", "i", "o", "p", "i", "a", "n", " ", "T", "r", "i", "a", "l", "s">>
            -> "Ethiopian Olympic Trials"
       [] x = <<"F", "B", "K", " ", "G", "a", "m", "e", "s">>
            -> "FBK Games"
       [] x = <<"N", "N", " ", "W", "o", "r", "l", "d", " ", "R", "e", "c", "o", "r", "d", " ", "D", "a", "y">>
            -> "NN World Record Day"
       [] x = <<"M", "e", "m", "o", "r", "i", "a", "l", " ", "v", "a", "n", " ", "D", "a", "m", "m", "e">>
            -> "Diamond League"
       [] x = <<"H", "e", "r", "c", "u", "l", "i", "s", " ", "M", "o", "n", "a", "c", "o">>
            -> "Herculis"
       [] x = <<"M", "o", "n", "a", "c", "o", " ", "D", "i", "a", "m", "o", "n", "d", " ", "L", "e", "a", "g", "u", "e">>
            -> "Diamond League"
       [] x = <<"I", "m", "p", "o", "s", "s", "i", "b", "l", "e", " ", "G", "a", "m", "e", "s">>
            -> "Impossible Games"
       [] OTHER -> NaN

\* the cell of line 114: df_wave.iloc[1,0]
AthletePatchRow == 1
AthletePatchColumn == 0

\* The whole function on the first table of the page (raw), as read_html gives it.
CreateWavelightRecordsDf(raw) ==
    IF \E i \in 1..Len(raw.rows) : ~HasYearPart(raw.rows[i]["Meeting"])
    THEN Raised("IndexError")                                            \* line 98
    ELSE
      LET n        == Len(raw.rows)
          withYear == SetColumn(raw, "year",
                                [i \in 1..n |-> YearOfMeeting(raw.rows[i]["Meeting"])])
          named    == SetColumn(withYear, "Meeting",
                                [i \in 1..n |-> NameOfMeeting(withYear.rows[i]["Meeting"])])
          mapped   == SetColumn(named, "Meeting",
                                [i \in 1..n |-> MapMeeting(named.rows[i]["Meeting"])])
          flagged  == SetColumn(mapped, "wavelight", Broadcast(mapped, "y"))
      IN  IF InRange(flagged, AthletePatchRow, AthletePatchColumn)
          THEN Returned(SetCell(flagged, AthletePatchRow, AthletePatchColumn,
                                "Jakob Ingebrigtsen"))
          ELSE Raised("IndexError")                                      \* line 114

(***************************************************************************)
(* combine_dfs (lines 135-159).                                            *)
(***************************************************************************)

RECURSIVE LStrip(_)
LStrip(s) == IF s # <<>> /\ Head(s) = " " THEN LStrip(Tail(s)) ELSE s

RECURSIVE RStrip(_)
RStrip(s) == IF s # <<>> /\ s[Len(s)] = " " THEN RStrip(SubSeq(s, 1, Len(s) - 1)) ELSE s

RECURSIVE DigitsValue(_)
DigitsValue(s) ==
    IF s = <<>> THEN 0
    ELSE 10 * DigitsValue(SubSeq(s, 1, Len(s) - 1)) + DigitVal(s[Len(s)])

\* int(text), as astype('int64') applies it to each cell of a column of text:
\* surrounding blanks are ignored and what is left must be decimal digits
\* (signs and underscores are outside the alphabet of the model)
PyInt(s) ==
    LET core == RStrip(LStrip(s))
    IN  IF core # <<>> /\ \A k \in 1..Len(core) : IsDigit(core[k])
        THEN [ok |-> TRUE, v |-> DigitsValue(core)]
        ELSE [ok |-> FALSE, v |-> 0]

\* line 144: df_wave.year.astype('int64') raises ValueError on a cell that is no integer
YearsAreInts(dw) == \A i \in 1..Len(dw.rows) : PyInt(dw.rows[i]["year"]).ok

\* lines 147-148 with the Meeting key left out of the join
KeysMatch_NoMeeting(l, r) ==
    /\ l["Athlete(s)"] = r["Athlete"]
    /\ l["year"] = r["year"]

\* lines 147-148: left_on=['Athlete(s)','Meeting','year'], right_on=['Athlete','Meeting','year'].
\* pandas matches a missing key with a missing key.
KeysMatch(l, r) ==
    /\ l["Athlete(s)"] = r["Athlete"]
    /\ l["Meeting"] = r["Meeting"]
    /\ l["year"] = r["year"]

\* the columns the right frame adds: all but the key columns that share their name
RightExtra(right) == SelectSeq(right.columns, LAMBDA c : c \notin {"Meeting", "year"})

\* line 146 with how='inner': a left row without a match gives no row
MergedRowsOf_Inner(l, right) ==
    LET extra == SelectSeq(right.columns, LAMBDA c : c \notin {"Meeting", "year"})
        eset  == {extra[k] : k \in 1..Len(extra)}
        hits  == SelectSeq(right.rows, LAMBDA r : KeysMatch(l, r))
    IN  [k \in 1..Len(hits) |->
            [c \in (DOMAIN l) \cup eset |-> IF c \in DOMAIN l THEN l[c] ELSE hits[k][c]]]

\* the rows a left row gives: one per matching right row, in the right frame's
\* order, or one with the right frame's columns missing
MergedRowsOf(l, right) ==
    LET extra == RightExtra(right)
        eset  == {extra[k] : k \in 1..Len(extra)}
        hits  == SelectSeq(right.rows, LAMBDA r : KeysMatch(l, r))
        join(r) == [c \in (DOMAIN l) \cup eset |-> IF c \in DOMAIN l THEN l[c] ELSE r[c]]
        alone == [c \in (DOMAIN l) \cup eset |-> IF c \in DOMAIN l THEN l[c] ELSE NaN]
    IN  IF hits = <<>> THEN <<alone>> ELSE [k \in 1..Len(hits) |-> join(hits[k])]

RECURSIVE MergedRows(_, _)
MergedRows(lrows, right) ==
    IF lrows = <<>> THEN <<>>
    ELSE MergedRowsOf(Head(lrows), right) \o MergedRows(Tail(lrows), right)

\* lines 145-148: df_records.merge(df_wave, how='left', ...)
MergeLeft(left, right) ==
    ResetIndex([nlevels |-> 1,
                columns |-> left.columns \o RightExtra(right),
                index   |-> <<>>,
                rows    |-> MergedRows(left.rows, right)])

\* line 149: df_comb.wavelight.fillna('n')
FillWavelight(t) ==
    SetColumn(t, "wavelight",
              [i \in 1..Len(t.rows) |->
                  IF t.rows[i]["wavelight"] = NaN THEN "n" ELSE t.rows[i]["wavelight"]])

\* lines 151-157: the one-row frame of the record missing from wikipedia
SyntheticColumns ==
    <<"Event", "Athlete(s)", "Meeting", "year", "Date", "wavelight", "gender", "Perf.">>

SyntheticRow ==
    [c \in {SyntheticColumns[k] : k \in 1..Len(SyntheticColumns)} |->
        CASE c = "Event"      -> "10,000 m"
          [] c = "Athlete(s)" -> "Sifan Hassan"
          [] c = "Meeting"    -> "FBK Games"
          [] c = "year"       -> 2021
          [] c = "Date"       -> [dtype |-> "date", y |-> 2021]
          [] c = "wavelight"  -> "y"
          [] c = "gender"     -> "W"
          [] c = "Perf."      -> "29:06.82"]

SyntheticFrame ==
    [nlevels |-> 1, columns |-> SyntheticColumns, index |-> <<0>>, rows |-> <<SyntheticRow>>]

\* lines 151-158: pd.concat([df_comb, <the frame>], ignore_index=True)
AppendSynthetic(t) == ResetIndex(ConcatFrames(<<t, SyntheticFrame>>))

\* The whole call. ret is what the caller gets, df_wave is the vendor frame
\* after the call: line 144 assigns the converted column into the argument.
CombineDfs(dw, dr) ==
    IF ~YearsAreInts(dw)
    THEN [ret |-> Raised("ValueError"), df_wave |-> dw]                 \* line 144
    ELSE
      LET typed == SetColumn(dw, "year", [i \in 1..Len(dw.rows) |-> PyInt(dw.rows[i]["year"]).v])
      IN  [ret     |-> Returned(AppendSynthetic(FillWavelight(MergeLeft(dr, typed)))),
           df_wave |-> typed]

(***************************************************************************)
(* get_tables, the two url_to_df functions and check_status.               *)
(***************************************************************************)

\* A page is the sequence of its elements in document order; an element has a
\* tag, its class attribute as a set of words, and, for a table, the frame
\* pd.read_html parses from it.
Element(tag, class, table) == [tag |-> tag, class |-> class, table |-> table]

\* lines 16-23: soup.findAll('table', {'class': "wikitable"}), each parsed, in order
GetTables(content) ==
    LET found == SelectSeq(content, LAMBDA e : e.tag = "table" /\ "wikitable" \in e.class)
    IN  [k \in 1..Len(found) |-> found[k].table]

\* lines 95-96: soup.find('table'), the first table element of any class
TablesOf(content) == SelectSeq(content, LAMBDA e : e.tag = "table")

\* what a url_to_df function hands back: a tuple (frame, status code), or nothing when it raised
NoReturn == [err |-> "none", df |-> NoTable, status_code |-> 0]
ReturnTuple(out, status) ==
    IF out.err = "ok" THEN [err |-> "ok", df |-> out.df, status_code |-> status]
    ELSE [err |-> out.err, df |-> NoTable, status_code |-> 0]

\* lines 79-84 with the status checked before the tables are read
WorldRecordUrlToDf_Gated(data) ==
    IF data.status_code = 200
    THEN ReturnTuple(CreateWorldRecordsDf(GetTables(data.content)).ret, data.status_code)
    ELSE ReturnTuple(Raised("HTTPError"), data.status_code)

\* lines 79-84, after requests.get has answered with data
WorldRecordUrlToDf(data) ==
    ReturnTuple(CreateWorldRecordsDf(GetTables(data.content)).ret, data.status_code)

\* lines 95-97 and 127-132, after requests.get has answered with data; read_html
\* raises ValueError when the page has no table
WavelightUrlToDf(data) ==
    IF TablesOf(data.content) = <<>>
    THEN ReturnTuple(Raised("ValueError"), data.status_code)
    ELSE ReturnTuple(CreateWavelightRecordsDf(TablesOf(data.content)[1].table),
                     data.status_code)

\* str.capitalize on the locations the callers name
Capitalize(location) ==
    CASE location = "wikipedia" -> "Wikipedia"
      [] location = "wavelight Site" -> "Wavelight site"

HttpOk == 200

\* lines 170-173: the line check_status prints
StatusLine(status, location) ==
    IF status = HttpOk
    THEN <<"sucessfully opened and read", Capitalize(location)>>
    ELSE <<"Unable to open or read", location, "Error code", status>>

(***************************************************************************)
(* Inputs.                                                                 *)
(***************************************************************************)

\* the alphabet of a raw Meeting cell and the bound on its length
Alphabet == {"a", "1", " ", "(", ")"}
MaxTextLen == 7

NotSplit == [err |-> "none", name |-> <<>>, year |-> <<>>]

\* world-record rows handed to combine_dfs
RecordColumns == <<"Event", "Perf.", "Athlete(s)", "Date", "Meeting", "gender", "year">>
RecordRow(a, m, y) ==
    [c \in {RecordColumns[k] : k \in 1..Len(RecordColumns)} |->
        CASE c = "Event"      -> IF a = "Sifan Hassan" THEN "10,000 m" ELSE "100 m"
          [] c = "Perf."      -> "x"
          [] c = "Athlete(s)" -> a
          [] c = "Date"       -> [dtype |-> "datetime64", y |-> y]
          [] c = "Meeting"    -> m
          [] c = "gender"     -> IF a = "Sifan Hassan" THEN "W" ELSE "M"
          [] c = "year"       -> y]
RecordRows ==
    {RecordRow(a, m, 2021) : a \in {"Sifan Hassan", "Usain Bolt"}, m \in {"FBK Games", NaN}}

\* vendor rows handed to combine_dfs, as create_wavelight_records_df shapes them:
\* the year is still text
WaveColumns == <<"Athlete", "Meeting", "year", "wavelight">>
WaveRow(a, m, y) ==
    [c \in {WaveColumns[k] : k \in 1..Len(WaveColumns)} |->
        CASE c = "Athlete"   -> a
          [] c = "Meeting"   -> m
          [] c = "year"      -> y
          [] c = "wavelight" -> "y"]
YearTexts == {<<"2", "0", "2", "1">>, <<"2", "0", "0", "9">>, <<"2", "0", "x", "1">>}
WaveRows == {WaveRow("Sifan Hassan", m, y) : m \in {"FBK Games", NaN}, y \in YearTexts}

MaxRecords == 2
MaxWave == 2

FrameOf(columns, rows) ==
    [nlevels |-> 1, columns |-> columns, index |-> [i \in 1..Len(rows) |-> i - 1],
     rows |-> rows]

\* the pages the two URLs may answer with
StatusCodes == {200, 404, 503}

WikiPageFull ==
    <<Element("table", {"wikitable", "sortable"}, PageTable(0, 21, LayoutMeetingTenth, 2)),
      Element("table", {"wikitable", "sortable"}, PageTable(1, 28, LayoutMeetingTenth, 1)),
      Element("table", {"infobox"}, PageTable(9, 1, LayoutShort, 1)),
      Element("table", {"wikitable"}, PageTable(2, 2, LayoutMeetingTenth, 1)),
      Element("p", {}, NoTable),
      Element("table", {"wikitable", "sortable"}, PageTable(3, 13, LayoutMeetingTenth, 1)),
      Element("table", {"wikitable", "sortable"}, PageTable(4, 11, LayoutMeetingTenth, 1))>>
WikiPageNoTables == <<Element("p", {}, NoTable)>>
WikiPages == {WikiPageFull, WikiPageNoTables}

RawWaveRow(a, m) == [c \in {"Athlete", "Meeting"} |-> IF c = "Athlete" THEN a ELSE m]
RawWaveTable(rows) == FrameOf(<<"Athlete", "Meeting">>, rows)
TextFBK2021 == <<"F", "B", "K", " ", "G", "a", "m", "e", "s", " ", "(", "2", "0", "2", "1", ")">>
TextImpossible2020 == <<"I", "m", "p", "o", "s", "s", "i", "b", "l", "e", " ", "G", "a", "m", "e", "s", " ", "(", "2", "0", "2", "0", ")">>
TextUnmapped2020 == <<"G", "o", "l", "d", "e", "n", " ", "G", "a", "l", "a", " ", "(", "2", "0", "2", "0", ")">>
TextNoYear == <<"F", "B", "K", " ", "G", "a", "m", "e", "s">>
WavePageFull ==
    <<Element("p", {}, NoTable),
      Element("table", {}, RawWaveTable(<<RawWaveRow("Sifan Hassan", TextFBK2021),
                                          RawWaveRow("Jakob Ingebrigsten", TextImpossible2020),
                                          RawWaveRow("Joshua Cheptegei", TextUnmapped2020)>>))>>
WavePageNoYear ==
    <<Element("table", {}, RawWaveTable(<<RawWaveRow("Sifan Hassan", TextFBK2021),
                                          RawWaveRow("Sifan Hassan", TextNoYear)>>))>>
WavePageOneRow ==
    <<Element("table", {}, RawWaveTable(<<RawWaveRow("Sifan Hassan", TextFBK2021)>>))>>
WavePageNoTables == <<Element("p", {}, NoTable)>>
WavePages == {WavePageFull, WavePageNoYear, WavePageOneRow, WavePageNoTables}

MaxPrints == 2

(***************************************************************************)
(* Initial states: one per family of calls, the others idle.               *)
(***************************************************************************)

IdleSplit == text = <<>> /\ split_out = NotSplit
IdleRecords ==
    df_list = <<>> /\ df_list_in = <<>> /\ records_df = NotCalled /\ calls = 0
IdleComb == df_wave = NoTable /\ df_records = NoTable /\ df_comb = NotCalled
IdleFetch ==
    /\ wiki_data = [status_code |-> HttpOk, content |-> <<>>]
    /\ wave_data = [status_code |-> HttpOk, content |-> <<>>]
    /\ wiki_ret = NoReturn /\ wave_ret = NoReturn /\ stdout = <<>>

InitSplit ==
    /\ text \in BoundedSeq(Alphabet, MaxTextLen)
    /\ split_out = NotSplit
    /\ IdleRecords /\ IdleComb /\ IdleFetch

InitRecords ==
    /\ \E n0 \in MenLens, n1 \in WomenLens, n3 \in MenIndoorLens, n4 \in WomenIndoorLens,
          layout \in Layouts, lv \in {1, 2}, nt \in {4, 5} :
          df_list = PageTables(n0, n1, n3, n4, layout, lv, nt)
    /\ df_list_in = df_list
    /\ records_df = NotCalled
    /\ calls = 0
    /\ IdleSplit /\ IdleComb /\ IdleFetch

InitComb ==
    /\ \E rows \in BoundedSeq(RecordRows, MaxRecords) : df_records = FrameOf(RecordColumns, rows)
    /\ \E rows \in BoundedSeq(WaveRows, MaxWave) : df_wave = FrameOf(WaveColumns, rows)
    /\ df_comb = NotCalled
    /\ IdleSplit /\ IdleRecords /\ IdleFetch

InitFetch ==
    /\ wiki_data \in [status_code : StatusCodes, content : WikiPages]
    /\ wave_data \in [status_code : StatusCodes, content : WavePages]
    /\ wiki_ret = NoReturn /\ wave_ret = NoReturn /\ stdout = <<>>
    /\ IdleSplit /\ IdleRecords /\ IdleComb

(***************************************************************************)
(* Actions: one per call.                                                  *)
(***************************************************************************)

\* lines 98-99 applied to the cell text
split_meeting ==
    /\ split_out.err = "none"
    /\ split_out' = SplitMeetingCell(text)
    /\ UNCHANGED <<text, recordsVars, combVars, fetchVars>>

\* records_df = create_world_records_df(df_list)
create_world_records_df ==
    /\ calls < MaxCalls
    /\ LET r == CreateWorldRecordsDf(df_list)
       IN  records_df' = r.ret /\ df_list' = r.df_list
    /\ calls' = calls + 1
    /\ UNCHANGED <<df_list_in, splitVars, combVars, fetchVars>>

\* df_comb = combine_dfs(df_wave, df_records)
combine_dfs ==
    /\ df_comb.err = "none"
    /\ LET r == CombineDfs(df_wave, df_records)
       IN  df_comb' = r.ret /\ df_wave' = r.df_wave
    /\ UNCHANGED <<df_records, splitVars, recordsVars, fetchVars>>

world_record_url_to_df ==
    /\ wiki_ret.err = "none"
    /\ wiki_ret' = WorldRecordUrlToDf(wiki_data)
    /\ UNCHANGED <<wiki_data, wave_data, wave_ret, stdout, splitVars, recordsVars, combVars>>

wavelight_url_to_df ==
    /\ wave_ret.err = "none"
    /\ wave_ret' = WavelightUrlToDf(wave_data)
    /\ UNCHANGED <<wiki_data, wave_data, wiki_ret, stdout, splitVars, recordsVars, combVars>>

\* check_status(status, location), the caller passing a status code it was
\* returned and the name of the page it came from
CheckStatus(status, location) ==
    /\ Len(stdout) < MaxPrints
    /\ stdout' = Append(stdout, StatusLine(status, location))
    /\ UNCHANGED <<wiki_data, wave_data, wiki_ret, wave_ret, splitVars, recordsVars, combVars>>

check_status ==
    \/ wiki_ret.err = "ok" /\ CheckStatus(wiki_ret.status_code, "wikipedia")
    \/ wave_ret.err = "ok" /\ CheckStatus(wave_ret.status_code, "wavelight Site")

NextSplit == split_meeting
NextRecords == create_world_records_df
NextComb == combine_dfs
NextFetch == world_record_url_to_df \/ wavelight_url_to_df \/ check_status

SpecSplit == InitSplit /\ [][NextSplit]_vars
SpecRecords == InitRecords /\ [][NextRecords]_vars
SpecComb == InitComb /\ [][NextComb]_vars
SpecFetch == InitFetch /\ [][NextFetch]_vars

Init == InitSplit \/ InitRecords \/ InitComb \/ InitFetch
Next == NextSplit \/ NextRecords \/ NextComb \/ NextFetch
Spec == Init /\ [][Next]_vars

(***************************************************************************)
(* Properties of the Meeting split (SpecSplit).                            *)
(***************************************************************************)

\* the position of the first ' (' in s
FirstSep(s) ==
    CHOOSE i \in 1..Len(s) :
        IsAt(s, MeetingSep, i) /\ \A j \in 1..(i - 1) : ~IsAt(s, MeetingSep, j)

\* s without the ")" it ends with
RECURSIVE StripTrailingParen(_)
StripTrailingParen(s) ==
    IF s # <<>> /\ s[Len(s)] = ")" THEN StripTrailingParen(SubSeq(s, 1, Len(s) - 1)) ELSE s

\* C4: the Meeting text is split on its first " (" only: the name is the text
\* before it and the year text is everything after it, the trailing ")" stripped.
C4_SplitOnFirstOnly ==
    split_out.err = "ok" =>
        /\ split_out.name = SubSeq(text, 1, FirstSep(text) - 1)
        /\ split_out.year = StripTrailingParen(SubSeq(text, FirstSep(text) + 2, Len(text)))

(***************************************************************************)
(* Properties of create_world_records_df (SpecRecords).                    *)
(***************************************************************************)

RowsIn(k) == Len(df_list_in[k + 1].rows)
Min(a, b) == IF a < b THEN a ELSE b

\* the table and row of the page an output row comes from: its Event cell
SourceTable(r) == r["Event"][1]
SourceRow(r) == r["Event"][2]

\* C3: every row of the returned table has gender M or W: M for the rows of
\* both men's tables (0 and 3), W for the rows of both women's tables (1 and 4).
C3_GenderTagged ==
    records_df.err = "ok" =>
        \A p \in 1..Len(records_df.df.rows) :
            LET r == records_df.df.rows[p]
            IN  /\ r["gender"] \in {"M", "W"}
                /\ SourceTable(r) \in {0, 3} => r["gender"] = "M"
                /\ SourceTable(r) \in {1, 4} => r["gender"] = "W"

\* C6: a stage leaves the tables it received unchanged: after
\* create_world_records_df(df_list) every table of df_list is as it was.
C6_InputsUnchanged == df_list = df_list_in

\* how many rows each block of the result holds
KeptMen == IF RowsIn(0) <= 20 THEN RowsIn(0) ELSE IF RowsIn(0) <= 42 THEN 20 ELSE RowsIn(0) - 22
KeptWomen == IF RowsIn(1) <= 27 THEN RowsIn(1) ELSE IF RowsIn(1) <= 50 THEN 27 ELSE RowsIn(1) - 23
KeptMenIndoor == Min(RowsIn(3), 12)
KeptWomenIndoor == Min(RowsIn(4), 10)

\* the page row (table, position) expected at position p (0-based) of the result
ExpectedSource(p) ==
    IF p < KeptMen THEN <<0, IF p < 20 THEN p ELSE p + 22>>
    ELSE IF p < KeptMen + KeptWomen
         THEN <<1, IF p - KeptMen < 27 THEN p - KeptMen ELSE p - KeptMen + 23>>
    ELSE IF p < KeptMen + KeptWomen + KeptMenIndoor
         THEN <<3, p - KeptMen - KeptWomen>>
    ELSE <<4, p - KeptMen - KeptWomen - KeptMenIndoor>>

\* C9: the returned table is men's outdoor rows except 20..41, then women's
\* outdoor rows except 27..49, then men's indoor rows 0..11, then women's indoor
\* rows 0..9, each block in its order, nothing of table 2, renumbered 0,1,2,...
C9_SelectionAndOrder ==
    records_df.err = "ok" =>
        /\ Len(records_df.df.rows) = KeptMen + KeptWomen + KeptMenIndoor + KeptWomenIndoor
        /\ Len(records_df.df.index) = Len(records_df.df.rows)
        /\ \A p \in 1..Len(records_df.df.rows) :
              /\ records_df.df.rows[p]["Event"] = ExpectedSource(p - 1)
              /\ records_df.df.index[p] = p - 1

\* a call that returned, every one of the four blocks having lost rows
C9_Witness ==
    /\ records_df.err = "ok"
    /\ RowsIn(0) > 42 /\ RowsIn(1) > 50 /\ RowsIn(3) > 12 /\ RowsIn(4) > 10
    /\ Len(records_df.df.rows) > 50

\* the cell of column c the page held for the output row r
PageCell(r, c) == df_list_in[SourceTable(r) + 1].rows[SourceRow(r) + 1][c]

\* C10: in the returned table the Meeting of row 9 is Diamond League and the
\* Meeting of rows 11 and 34 is NN World Record Day, and no other column of the
\* three rows is written.
C10_PatchesMeetingOnly ==
    records_df.err = "ok" =>
        /\ records_df.df.rows[10]["Meeting"] = "Diamond League"
        /\ records_df.df.rows[12]["Meeting"] = "NN World Record Day"
        /\ records_df.df.rows[35]["Meeting"] = "NN World Record Day"
        /\ \A p \in {10, 12, 35} :
              \A c \in DOMAIN df_list_in[1].rows[1] \ {"Meeting", "Date"} :
                  records_df.df.rows[p][c] = PageCell(records_df.df.rows[p], c)

(***************************************************************************)
(* Properties of combine_dfs (SpecComb).                                   *)
(***************************************************************************)

\* the rows of the result before the appended one
MergedPart == SubSeq(df_comb.df.rows, 1, Len(df_comb.df.rows) - 1)

\* vendor row v carries the triple of the row r (the vendor year read as an integer)
SameTriple(r, v) ==
    /\ v["Athlete"] = r["Athlete(s)"]
    /\ v["Meeting"] = r["Meeting"]
    /\ v["year"] = r["year"]

HasVendorMatch(r) == \E k \in 1..Len(df_wave.rows) : SameTriple(r, df_wave.rows[k])

\* the result row o carries every cell of the world-record row r
CarriesRecord(o, r) == \A c \in DOMAIN r : o[c] = r[c]

\* C1: every world-record row is in the result, flagged y if some vendor row
\* has its (athlete, meeting, year) triple and n if none has.
C1_FlagIffMatch ==
    df_comb.err = "ok" =>
        /\ \A i \in 1..Len(df_records.rows) :
              \E p \in 1..Len(MergedPart) : CarriesRecord(MergedPart[p], df_records.rows[i])
        /\ \A p \in 1..Len(MergedPart) :
              /\ \E i \in 1..Len(df_records.rows) : CarriesRecord(MergedPart[p], df_records.rows[i])
              /\ MergedPart[p]["wavelight"] = (IF HasVendorMatch(MergedPart[p]) THEN "y" ELSE "n")

\* a result holding a matched world-record row and an unmatched one
C1_Witness ==
    /\ df_comb.err = "ok"
    /\ \E p, q \in 1..Len(MergedPart) :
          /\ MergedPart[p]["wavelight"] = "y" /\ HasVendorMatch(MergedPart[p])
          /\ MergedPart[q]["wavelight"] = "n" /\ ~HasVendorMatch(MergedPart[q])

IsHassanRow(r) ==
    /\ r["Athlete(s)"] = "Sifan Hassan"
    /\ r["Meeting"] = "FBK Games"
    /\ r["year"] = 2021
    /\ r["wavelight"] = "y"

\* C2: the result holds exactly one row with athlete Sifan Hassan, meeting FBK
\* Games, year 2021 and flag y, whatever the inputs hold.
C2_ExactlyOneHassanRow ==
    df_comb.err = "ok" =>
        Cardinality({p \in 1..Len(df_comb.df.rows) : IsHassanRow(df_comb.df.rows[p])}) = 1

NoVendorMatch ==
    \A i \in 1..Len(df_records.rows) : ~HasVendorMatch(df_records.rows[i])

\* C5: when no vendor row matches any of the n world-record rows, the result
\* is the n rows, once each, in their order, flagged n, then the synthetic row
\* flagged y: n + 1 rows.
C5_NoMatchGivesNPlusOne ==
    (df_comb.err = "ok" /\ NoVendorMatch) =>
        /\ Len(df_comb.df.rows) = Len(df_records.rows) + 1
        /\ \A i \in 1..Len(df_records.rows) :
              /\ CarriesRecord(df_comb.df.rows[i], df_records.rows[i])
              /\ df_comb.df.rows[i]["wavelight"] = "n"
        /\ LET last == df_comb.df.rows[Len(df_comb.df.rows)]
           IN  IsHassanRow(last) /\ last["Event"] = "10,000 m"

\* two world-record rows merged with a vendor table of no rows
C5_Witness ==
    /\ df_comb.err = "ok"
    /\ Len(df_records.rows) = 2
    /\ df_wave.rows = <<>>
    /\ Len(df_comb.df.rows) = 3

\* C8: combine_dfs never fails on a malformed join key: the call completes, and
\* a vendor row whose meeting is missing matches no world-record row.
C8_MalformedKeyNeverFails ==
    /\ df_comb.err \in {"none", "ok"}
    /\ df_comb.err = "ok" =>
          \A p \in 1..Len(MergedPart) :
              MergedPart[p]["wavelight"] = "y" =>
                  \E k \in 1..Len(df_wave.rows) :
                      /\ df_wave.rows[k]["Meeting"] # NaN
                      /\ SameTriple(MergedPart[p], df_wave.rows[k])

(***************************************************************************)
(* Properties of the fetch functions and check_status (SpecFetch).         *)
(***************************************************************************)

\* the printed lines that name the page, and what each must be for status st
LineOk(line, st, location) ==
    IF st = 200
    THEN line = <<"sucessfully opened and read", Capitalize(location)>>
    ELSE line = <<"Unable to open or read", location, "Error code", st>>

IsAbout(line, location) == line[2] \in {location, Capitalize(location)}

\* C7: the status is observational only: whether a url_to_df function returns
\* depends on the page alone, the status code comes back unchanged next to the
\* table made from the page, and check_status prints the success line exactly
\* for 200 and the failure line with the code otherwise.
C7_StatusObservational ==
    /\ wiki_ret.err # "none" =>
          /\ (wiki_ret.err = "ok") <=> (wiki_data.content = WikiPageFull)
          /\ wiki_ret.err = "ok" =>
                /\ wiki_ret.status_code = wiki_data.status_code
                /\ Len(wiki_ret.df.rows) = 69
    /\ wave_ret.err # "none" =>
          /\ (wave_ret.err = "ok") <=> (wave_data.content = WavePageFull)
          /\ wave_ret.err = "ok" =>
                /\ wave_ret.status_code = wave_data.status_code
                /\ Len(wave_ret.df.rows) = 3
    /\ \A k \in 1..Len(stdout) :
          /\ IsAbout(stdout[k], "wikipedia") => LineOk(stdout[k], wiki_data.status_code, "wikipedia")
          /\ IsAbout(stdout[k], "wavelight Site") =>
                LineOk(stdout[k], wave_data.status_code, "wavelight Site")
          /\ IsAbout(stdout[k], "wikipedia") \/ IsAbout(stdout[k], "wavelight Site")

\* both tables came back from pages answered with a status other than 200 and
\* with 200, and both kinds of line were printed
C7_Witness ==
    /\ wiki_ret.err = "ok" /\ wiki_ret.status_code = 404
    /\ wave_ret.err = "ok" /\ wave_ret.status_code = 200
    /\ \E j, k \in 1..Len(stdout) :
          /\ stdout[j] = <<"Unable to open or read", "wikipedia", "Error code", 404>>
          /\ stdout[k] = <<"sucessfully opened and read", "Wavelight site">>

====
